---- MODULE Spec2Model ----
(***************************************************************************)
(* Model of the reporting query service of src/app.py: the five read-only  *)
(* endpoints list_transactions, get_statistics, get_bar_chart,             *)
(* get_pie_chart and get_combined_data over one MongoDB collection.        *)
(*                                                                         *)
(* The collection is a sequence of documents in natural storage order; it  *)
(* is chosen in Init and never written.  Every request is one action: it   *)
(* draws its parameters and a storage fault, runs the whole handler and    *)
(* leaves the request in req and the HTTP outcome in resp.                 *)
(*                                                                         *)
(* Representation:                                                         *)
(*   - a Python str is a sequence of one-character strings;                *)
(*   - a datetime is <<year, month, day>> (the time of day is 00:00);      *)
(*   - a price is an integer number of currency units;                     *)
(*   - a raised Python exception is [type, text]; a handler's outcome is   *)
(*     [ok |-> TRUE, body] or [ok |-> FALSE, status, detail].              *)
(*                                                                         *)
(* The handlers are modelled as their definitions read.  (app.py names     *)
(* HTMLResponse at line 59 without importing it.)                          *)
(***************************************************************************)
EXTENDS Integers, Sequences, FiniteSets, TLC

VARIABLES collection, req, resp

vars == <<collection, req, resp>>

----------------------------------------------------------------------------
(* Bounds of the model *)

\* largest number of documents in the collection
MaxDocs == 3
\* largest page number requested
MaxPage == 2
\* largest page size requested
MaxPageSize == 2

----------------------------------------------------------------------------
(* Python and library values *)

\* datetime.MINYEAR and datetime.MAXYEAR, the years datetime(...) accepts
MINYEAR == 1
MAXYEAR == 9999

\* float('inf'), above every price of the model
Inf == 1000000

\* None
None == <<"None">>

Raise(type, text) == [raised |-> TRUE, type |-> type, text |-> text]

Value(v) == [raised |-> FALSE, val |-> v]

\* str(e) of a built-in exception is its message
StrOfException(e) == e.text

\* HTTPException(status_code, detail)
HTTPException(status, detail) == [ok |-> FALSE, status |-> status, detail |-> detail]

\* str(e) of an HTTPException is "<status_code>: <detail>"
StrOfHTTPException(r) == ToString(r.status) \o ": " \o r.detail

\* datetime(year, month, day): ValueError outside MINYEAR..MAXYEAR and 1..12
datetime(year, month, day) ==
    IF year < MINYEAR \/ year > MAXYEAR
    THEN Raise("ValueError", "year " \o ToString(year) \o " is out of range")
    ELSE IF month < 1 \/ month > 12
    THEN Raise("ValueError", "month must be in 1..12")
    ELSE Value(<<year, month, day>>)

\* a < b on datetimes
DateLt(a, b) ==
    \/ a[1] < b[1]
    \/ a[1] = b[1] /\ a[2] < b[2]
    \/ a[1] = b[1] /\ a[2] = b[2] /\ a[3] < b[3]

Digits == <<"0", "1", "2", "3", "4", "5", "6", "7", "8", "9">>

IsDigit(c) == \E i \in 1..10 : Digits[i] = c

DigitValue(c) == (CHOOSE i \in 1..10 : Digits[i] = c) - 1

RECURSIVE DecimalValue(_)
DecimalValue(s) ==
    IF s = <<>> THEN 0
    ELSE 10 * DecimalValue(SubSeq(s, 1, Len(s) - 1)) + DigitValue(s[Len(s)])

UpperCase == <<"A", "B", "C", "D", "E", "F", "G", "H", "I", "J", "K", "L", "M",
               "N", "O", "P", "Q", "R", "S", "T", "U", "V", "W", "X", "Y", "Z">>

LowerCase == <<"a", "b", "c", "d", "e", "f", "g", "h", "i", "j", "k", "l", "m",
               "n", "o", "p", "q", "r", "s", "t", "u", "v", "w", "x", "y", "z">>

Lower(c) ==
    IF \E i \in 1..26 : UpperCase[i] = c
    THEN LowerCase[CHOOSE i \in 1..26 : UpperCase[i] = c]
    ELSE c

LowerStr(s) == [i \in 1..Len(s) |-> Lower(s[i])]

RECURSIVE Join(_)
\* the text of a str, for a message
Join(s) == IF s = <<>> THEN "" ELSE s[1] \o Join(Tail(s))

\* float(s) for the strings of the model: a run of decimal digits is its
\* value, "inf"/"infinity"/"nan" in any case are the non-finite floats (equal
\* to no price), anything else is a ValueError
float(s) ==
    IF s # <<>> /\ \A i \in 1..Len(s) : IsDigit(s[i])
    THEN Value(DecimalValue(s))
    ELSE IF LowerStr(s) \in {<<"i", "n", "f">>, <<"n", "a", "n">>,
                             <<"i", "n", "f", "i", "n", "i", "t", "y">>}
    THEN Value(Inf)
    ELSE Raise("ValueError", "could not convert string to float: '" \o Join(s) \o "'")

----------------------------------------------------------------------------
(* MongoDB queries *)

\* {"$regex": pattern, "$options": "i"} for a pattern of letters and digits:
\* the field holds the pattern as a substring, letter case ignored
RegexMatchI(field, pattern) ==
    \E i \in 1..(Len(field) - Len(pattern) + 1) :
        SubSeq(LowerStr(field), i, i + Len(pattern) - 1) = LowerStr(pattern)

\* the query document of list_transactions: {} or the three-way $or
MatchesQuery(doc, query) ==
    \/ query.empty
    \/ ~query.empty /\ \/ RegexMatchI(doc.title, query.regex)
                       \/ RegexMatchI(doc.description, query.regex)
                       \/ doc.price = query.price

\* collection.find(query): the matching documents in natural order
Find(coll, query) == SelectSeq(coll, LAMBDA d : MatchesQuery(d, query))

\* cursor.skip(n)
Skip(s, n) == SubSeq(s, n + 1, Len(s))

\* cursor.limit(n).to_list(n)
Limit(s, n) == SubSeq(s, 1, IF n < Len(s) THEN n ELSE Len(s))

\* {"dateOfSale": {"$gte": start_date, "$lt": end_date}}
InInterval(doc, start_date, end_date) ==
    /\ ~DateLt(doc.dateOfSale, start_date)
    /\ DateLt(doc.dateOfSale, end_date)

\* {"sold": sold, "dateOfSale": {"$gte": start_date, "$lt": end_date}}
MatchSold(coll, sold, start_date, end_date) ==
    SelectSeq(coll, LAMBDA d : d.sold = sold /\ InInterval(d, start_date, end_date))

\* MatchInterval keeping the sold documents only
MatchIntervalSoldOnly(coll, start_date, end_date) ==
    SelectSeq(coll, LAMBDA d : d.sold /\ InInterval(d, start_date, end_date))

\* {"dateOfSale": {"$gte": start_date, "$lt": end_date}}
MatchInterval(coll, start_date, end_date) ==
    SelectSeq(coll, LAMBDA d : InInterval(d, start_date, end_date))

RECURSIVE SumPrice(_)
\* {"$sum": "$price"} over a sequence of documents
SumPrice(docs) ==
    IF docs = <<>> THEN 0 ELSE docs[1].price + SumPrice(Tail(docs))

\* {"$group": {"_id": None, "total_sales": {"$sum": "$price"}}}: one group
\* when there is a document, none otherwise
GroupTotalSales(docs) ==
    IF docs = <<>> THEN <<>>
    ELSE <<[_id |-> None, total_sales |-> SumPrice(docs)]>>

\* collection.count_documents(filter), on the matched documents
CountDocuments(docs) == Len(docs)

\* "boundaries": [0, 100, ..., 900, float('inf')]
Boundaries == <<0, 100, 200, 300, 400, 500, 600, 700, 800, 900, Inf>>

\* a BSON value used as a group key: <<"number", n>> or <<"string", s>>
NumberKey(n) == <<"number", n>>

\* "default": "Other"
DefaultKey == <<"string", "Other">>

\* BucketKey with the bounds the wrong way round: (lower, upper]
BucketKeyUpperInclusive(price) ==
    IF \E i \in 1..(Len(Boundaries) - 1) :
           Boundaries[i] < price /\ price <= Boundaries[i + 1]
    THEN NumberKey(Boundaries[CHOOSE i \in 1..(Len(Boundaries) - 1) :
                       Boundaries[i] < price /\ price <= Boundaries[i + 1]])
    ELSE DefaultKey

\* the _id $bucket gives a document: the lower bound of the interval
\* [Boundaries[i], Boundaries[i+1]) that holds its price, or the default
BucketKey(price) ==
    IF \E i \in 1..(Len(Boundaries) - 1) :
           Boundaries[i] <= price /\ price < Boundaries[i + 1]
    THEN NumberKey(Boundaries[CHOOSE i \in 1..(Len(Boundaries) - 1) :
                       Boundaries[i] <= price /\ price < Boundaries[i + 1]])
    ELSE DefaultKey

\* the keys $bucket can produce, in BSON order (numbers before strings)
BucketKeys ==
    [i \in 1..(Len(Boundaries) - 1) |-> NumberKey(Boundaries[i])] \o <<DefaultKey>>

\* "output": {"count": {"$sum": 1}} for one key
BucketCount(docs, key) ==
    Len(SelectSeq(docs, LAMBDA d : BucketKey(d.price) = key))

RECURSIVE BucketFrom(_, _)
\* the groups of the keys from position i on that hold a document
BucketFrom(docs, i) ==
    IF i > Len(BucketKeys) THEN <<>>
    ELSE (IF BucketCount(docs, BucketKeys[i]) > 0
          THEN <<[_id |-> BucketKeys[i], count |-> BucketCount(docs, BucketKeys[i])]>>
          ELSE <<>>) \o BucketFrom(docs, i + 1)

\* Bucket reporting every key, the empty ones with count 0
BucketWithZeros(docs) ==
    [i \in 1..Len(BucketKeys) |->
        [_id |-> BucketKeys[i], count |-> BucketCount(docs, BucketKeys[i])]]

\* the $bucket stage: one group per key that holds a document, sorted by _id
Bucket(docs) == BucketFrom(docs, 1)

\* the categories of a sequence of documents
Categories(docs) == {docs[i].category : i \in 1..Len(docs)}

\* {"$group": {"_id": "$category", "count": {"$sum": 1}}}: the groups
GroupByCategory(docs) ==
    {[_id |-> c, count |-> Len(SelectSeq(docs, LAMBDA d : d.category = c))] :
        c \in Categories(docs)}

\* to_list(None) of the $group stage: the groups in an order the server picks
GroupLists(docs) ==
    {s \in [1..Cardinality(GroupByCategory(docs)) -> GroupByCategory(docs)] :
        \A i, j \in DOMAIN s : s[i] = s[j] => i = j}

----------------------------------------------------------------------------
(* Storage faults: the at-th database call of a request raises an exception *)
(* with the given text; at = 0 is a request whose calls all succeed.        *)

NoFault == [at |-> 0, text |-> ""]

FaultTexts == {"connection refused", "operation timed out"}

Faults(calls) == {NoFault} \cup [at : 1..calls, text : FaultTexts]

FaultAt(fault, call) == fault.at = call

\* str(ObjectId)
StrOfObjectId(oid) == ToString(oid.oid)

----------------------------------------------------------------------------
(* The handlers.  base is the number of database calls the request made     *)
(* before the handler was entered.                                          *)

\* start_date and end_date of the three reporting handlers
MonthInterval(month, year) ==
    LET start_date == datetime(year, month, 1)
        end_date == IF month = 12 THEN datetime(year + 1, 1, 1)
                    ELSE datetime(year, month + 1, 1)
    IN  IF start_date.raised THEN start_date
        ELSE IF end_date.raised THEN end_date
        ELSE Value([start_date |-> start_date.val, end_date |-> end_date.val])

\* SkipOf counting pages from 0
SkipOfPageFromZero(page, page_size) == page * page_size

\* skip = (page - 1) * page_size
SkipOf(page, page_size) == (page - 1) * page_size

list_transactions(search, page, page_size, coll, fault, base) ==
    LET hasSearch == search # None /\ search # <<>>
        price == IF hasSearch THEN float(search) ELSE Value(0)
        query == IF hasSearch
                 THEN [empty |-> FALSE, regex |-> search, price |-> price.val]
                 ELSE [empty |-> TRUE]
        transactions == Limit(Skip(Find(coll, query), SkipOf(page, page_size)), page_size)
    IN  IF price.raised THEN HTTPException(500, StrOfException(price))
        ELSE IF FaultAt(fault, base + 1) THEN HTTPException(500, fault.text)
        ELSE [ok |-> TRUE,
              body |-> [i \in 1..Len(transactions) |->
                           [transactions[i] EXCEPT !._id = StrOfObjectId(@)]]]

get_statistics(month, year, coll, fault, base) ==
    LET dates == MonthInterval(month, year)
        sold == MatchSold(coll, TRUE, dates.val.start_date, dates.val.end_date)
        notSold == MatchSold(coll, FALSE, dates.val.start_date, dates.val.end_date)
        total_sales == GroupTotalSales(sold)
    IN  IF dates.raised THEN HTTPException(500, StrOfException(dates))
        ELSE IF \E c \in 1..3 : FaultAt(fault, base + c)
        THEN HTTPException(500, fault.text)
        ELSE [ok |-> TRUE,
              body |-> [total_sales |-> IF total_sales # <<>>
                                        THEN total_sales[1].total_sales ELSE 0,
                        total_items_sold |-> CountDocuments(sold),
                        total_items_not_sold |-> CountDocuments(notSold)]]

\* get_bar_chart without the sold filter of its $match stage
get_bar_chart_unfiltered(month, year, coll, fault, base) ==
    LET dates == MonthInterval(month, year)
        docs == SelectSeq(coll, LAMBDA d :
                    InInterval(d, dates.val.start_date, dates.val.end_date))
    IN  IF dates.raised THEN HTTPException(500, StrOfException(dates))
        ELSE IF FaultAt(fault, base + 1) THEN HTTPException(500, fault.text)
        ELSE [ok |-> TRUE, body |-> Bucket(docs)]

get_bar_chart(month, year, coll, fault, base) ==
    LET dates == MonthInterval(month, year)
        sold == MatchSold(coll, TRUE, dates.val.start_date, dates.val.end_date)
    IN  IF dates.raised THEN HTTPException(500, StrOfException(dates))
        ELSE IF FaultAt(fault, base + 1) THEN HTTPException(500, fault.text)
        ELSE [ok |-> TRUE, body |-> Bucket(sold)]

\* the outcomes get_pie_chart can have: one per order of the groups
get_pie_chart(month, year, coll, fault, base) ==
    LET dates == MonthInterval(month, year)
        docs == MatchInterval(coll, dates.val.start_date, dates.val.end_date)
    IN  IF dates.raised THEN {HTTPException(500, StrOfException(dates))}
        ELSE IF FaultAt(fault, base + 1) THEN {HTTPException(500, fault.text)}
        ELSE {[ok |-> TRUE, body |-> g] : g \in GroupLists(docs)}

\* page and page_size of the list_transactions call of get_combined_data
CombinedPage == 1
CombinedPageSize == 10

\* get_combined_data answering with what it has when get_pie_chart fails
get_combined_data_partial(month, year, coll, fault) ==
    LET transactions == list_transactions(None, CombinedPage, CombinedPageSize, coll, fault, 0)
        statistics == get_statistics(month, year, coll, fault, 1)
        bar_chart == get_bar_chart(month, year, coll, fault, 4)
    IN  IF ~transactions.ok
        THEN {HTTPException(500, StrOfHTTPException(transactions))}
        ELSE IF ~statistics.ok
        THEN {HTTPException(500, StrOfHTTPException(statistics))}
        ELSE IF ~bar_chart.ok
        THEN {HTTPException(500, StrOfHTTPException(bar_chart))}
        ELSE {[ok |-> TRUE,
               body |-> [transactions |-> transactions.body,
                         statistics |-> statistics.body,
                         bar_chart |-> bar_chart.body,
                         pie_chart |-> IF pie_chart.ok THEN pie_chart.body ELSE <<>>]] :
                  pie_chart \in get_pie_chart(month, year, coll, fault, 5)}

\* the outcomes get_combined_data can have
get_combined_data(month, year, coll, fault) ==
    LET transactions == list_transactions(None, CombinedPage, CombinedPageSize, coll, fault, 0)
        statistics == get_statistics(month, year, coll, fault, 1)
        bar_chart == get_bar_chart(month, year, coll, fault, 4)
    IN  IF ~transactions.ok
        THEN {HTTPException(500, StrOfHTTPException(transactions))}
        ELSE IF ~statistics.ok
        THEN {HTTPException(500, StrOfHTTPException(statistics))}
        ELSE IF ~bar_chart.ok
        THEN {HTTPException(500, StrOfHTTPException(bar_chart))}
        ELSE {IF ~pie_chart.ok
              THEN HTTPException(500, StrOfHTTPException(pie_chart))
              ELSE [ok |-> TRUE,
                    body |-> [transactions |-> transactions.body,
                              statistics |-> statistics.body,
                              bar_chart |-> bar_chart.body,
                              pie_chart |-> pie_chart.body]] :
                  pie_chart \in get_pie_chart(month, year, coll, fault, 5)}

----------------------------------------------------------------------------
(* The stored documents and the requests of the model *)

\* a stored document of the Transaction shape, with its ObjectId
Transaction(id, title, price, description, category, sold, dateOfSale) ==
    [_id |-> [oid |-> id], id |-> id, title |-> title, price |-> price,
     description |-> description, category |-> category, image |-> "img",
     sold |-> sold, dateOfSale |-> dateOfSale]

\* the documents a collection of the model is drawn from
Documents ==
    { Transaction(1, <<"S", "h", "i", "r", "t">>, 50, <<"b", "l", "u", "e">>,
                  "clothing", TRUE, <<2023, 1, 15>>),
      Transaction(2, <<"L", "a", "m", "p">>, 150, <<"d", "e", "s", "k">>,
                  "home", FALSE, <<2023, 1, 20>>),
      Transaction(3, <<"S", "c", "a", "r", "f">>, 100, <<"5", "0", "c", "m">>,
                  "clothing", TRUE, <<2023, 1, 1>>),
      Transaction(4, <<"C", "a", "p">>, 99, <<"r", "e", "d">>,
                  "clothing", TRUE, <<2023, 2, 1>>),
      Transaction(5, <<"T", "V">>, 900, <<"l", "a", "m", "p", "s">>,
                  "electronics", TRUE, <<2023, 12, 31>>),
      Transaction(6, <<"R", "u", "g">>, 1000, <<"w", "o", "o", "l">>,
                  "home", FALSE, <<2024, 1, 1>>),
      Transaction(7, <<"P", "e", "n">>, -5, <<"i", "n", "k">>,
                  "clothing", TRUE, <<2023, 12, 1>>),
      Transaction(8, <<"B", "e", "l", "t">>, 99, <<"t", "a", "n">>,
                  "clothing", TRUE, <<2023, 1, 31>>) }

\* the collections of the model: at most MaxDocs different documents, in any
\* storage order
Collections ==
    UNION {{s \in [1..n -> Documents] : \A i, j \in 1..n : s[i] = s[j] => i = j} :
              n \in 0..MaxDocs}

\* the search parameters of the model: absent, empty, text and numbers
Searches ==
    {None, <<>>, <<"l", "a", "m", "p">>, <<"S", "H", "I", "R", "T">>,
     <<"5", "0">>, <<"x", "y", "z">>}

Pages == 1..MaxPage

PageSizes == 1..MaxPageSize

Months == {0, 1, 12, 13}

Years == {2023, MAXYEAR}

\* no request is being handled
Idle == [op |-> "idle"]

Pending == [ok |-> FALSE, status |-> 0, detail |-> ""]

----------------------------------------------------------------------------
(* The specification *)

Init ==
    /\ collection \in Collections
    /\ req = Idle
    /\ resp = Pending

\* GET /transactions
ListTransactions ==
    /\ req = Idle
    /\ \E search \in Searches, page \in Pages, page_size \in PageSizes,
          fault \in Faults(1) :
          /\ req' = [op |-> "list_transactions", search |-> search, page |-> page,
                     page_size |-> page_size, fault |-> fault]
          /\ resp' = list_transactions(search, page, page_size, collection, fault, 0)
    /\ UNCHANGED collection

\* GET /statistics
GetStatistics ==
    /\ req = Idle
    /\ \E month \in Months, year \in Years, fault \in Faults(3) :
          /\ req' = [op |-> "get_statistics", month |-> month, year |-> year,
                     fault |-> fault]
          /\ resp' = get_statistics(month, year, collection, fault, 0)
    /\ UNCHANGED collection

\* GET /bar-chart
GetBarChart ==
    /\ req = Idle
    /\ \E month \in Months, year \in Years, fault \in Faults(1) :
          /\ req' = [op |-> "get_bar_chart", month |-> month, year |-> year,
                     fault |-> fault]
          /\ resp' = get_bar_chart(month, year, collection, fault, 0)
    /\ UNCHANGED collection

\* GET /pie-chart
GetPieChart ==
    /\ req = Idle
    /\ \E month \in Months, year \in Years, fault \in Faults(1) :
          /\ req' = [op |-> "get_pie_chart", month |-> month, year |-> year,
                     fault |-> fault]
          /\ resp' \in get_pie_chart(month, year, collection, fault, 0)
    /\ UNCHANGED collection

\* GET /combined-data
GetCombinedData ==
    /\ req = Idle
    /\ \E month \in Months, year \in Years, fault \in Faults(6) :
          /\ req' = [op |-> "get_combined_data", month |-> month, year |-> year,
                     fault |-> fault]
          /\ resp' \in get_combined_data(month, year, collection, fault)
    /\ UNCHANGED collection

\* the response is sent and the request is over
Reply ==
    /\ req # Idle
    /\ req' = Idle
    /\ resp' = Pending
    /\ UNCHANGED collection

Next ==
    \/ ListTransactions
    \/ GetStatistics
    \/ GetBarChart
    \/ GetPieChart
    \/ GetCombinedData
    \/ Reply

Spec == Init /\ [][Next]_vars

----------------------------------------------------------------------------
(* What the claims speak of, stated without the handlers' date arithmetic    *)

\* the positions of the stored documents dated in month m of year y
InMonth(m, y) ==
    {i \in 1..Len(collection) :
        collection[i].dateOfSale[1] = y /\ collection[i].dateOfSale[2] = m}

SoldInMonth(m, y) == {i \in InMonth(m, y) : collection[i].sold}

NotSoldInMonth(m, y) == {i \in InMonth(m, y) : ~collection[i].sold}

RECURSIVE PriceSum(_)
\* the sum of the prices of the documents at a set of positions
PriceSum(S) ==
    IF S = {} THEN 0
    ELSE LET i == CHOOSE j \in S : TRUE
         IN  collection[i].price + PriceSum(S \ {i})

RECURSIVE CountSum(_)
\* the sum of the counts of a list of groups
CountSum(groups) ==
    IF groups = <<>> THEN 0 ELSE groups[1].count + CountSum(Tail(groups))

\* the lower bound of the bucket the specification gives a price p >= 0
LowerBound(p) == IF p < 900 THEN 100 * (p \div 100) ELSE 900

\* the count a list of groups reports for a key, 0 when it has no such group
CountFor(groups, key) ==
    IF \E i \in 1..Len(groups) : groups[i]._id = key
    THEN groups[CHOOSE i \in 1..Len(groups) : groups[i]._id = key].count
    ELSE 0

\* a request of the given operation was handled without a storage fault
Handled(op) == req # Idle /\ req.op = op /\ req.fault = NoFault

----------------------------------------------------------------------------
(* C1 *)

\* C1: for every month 1..12 and every year, get_statistics returns the sum
\* of price over the sold documents of the month, their number, and the
\* number of unsold documents of the month (0 and 0 when none is sold)
C1_StatisticsEveryYear ==
    (Handled("get_statistics") /\ req.month \in 1..12) =>
        /\ resp.ok
        /\ resp.body.total_sales = PriceSum(SoldInMonth(req.month, req.year))
        /\ resp.body.total_items_sold = Cardinality(SoldInMonth(req.month, req.year))
        /\ resp.body.total_items_not_sold =
               Cardinality(NotSoldInMonth(req.month, req.year))

\* the same for every month whose following month datetime can represent
StatisticsBelowMaxYear ==
    (Handled("get_statistics") /\ req.month \in 1..12
        /\ ~(req.month = 12 /\ req.year = MAXYEAR)) =>
        /\ resp.ok
        /\ resp.body.total_sales = PriceSum(SoldInMonth(req.month, req.year))
        /\ resp.body.total_items_sold = Cardinality(SoldInMonth(req.month, req.year))
        /\ resp.body.total_items_not_sold =
               Cardinality(NotSoldInMonth(req.month, req.year))

----------------------------------------------------------------------------
(* C2 *)

\* C2: the counts of the entries get_bar_chart returns add up to the
\* total_items_sold get_statistics returns for the same month, year and
\* data, on its own and inside one combined response
C2_BarCountsSumToItemsSold ==
    /\ (Handled("get_bar_chart") /\ resp.ok) =>
           LET statistics == get_statistics(req.month, req.year, collection, NoFault, 0)
           IN  /\ statistics.ok
               /\ CountSum(resp.body) = statistics.body.total_items_sold
    /\ (Handled("get_combined_data") /\ resp.ok) =>
           CountSum(resp.body.bar_chart) = resp.body.statistics.total_items_sold

\* a bar chart was returned for a month with two sold documents or more
C2_Witness ==
    /\ Handled("get_bar_chart")
    /\ resp.ok
    /\ CountSum(resp.body) >= 2
    /\ Cardinality(NotSoldInMonth(req.month, req.year)) >= 1

----------------------------------------------------------------------------
(* C3 *)

\* the lower bounds of the ten buckets, in ascending order
TenBuckets == [i \in 1..10 |-> 100 * (i - 1)]

\* the sold documents of the month whose price the bucket from lower bound b
\* holds (the last bucket has no upper bound)
SoldInBucket(m, y, b) ==
    {i \in SoldInMonth(m, y) :
        /\ b <= collection[i].price
        /\ (b < 900 => collection[i].price < b + 100)}

\* C3 as stated: get_bar_chart returns one pair per bucket, for each of the
\* ten buckets in ascending order, with count 0 for a bucket that holds no
\* sold document of the month
C3_OnePairPerBucket ==
    (Handled("get_bar_chart") /\ resp.ok) =>
        /\ Len(resp.body) = 10
        /\ \A i \in 1..10 :
              /\ resp.body[i]._id = NumberKey(TenBuckets[i])
              /\ resp.body[i].count =
                     Cardinality(SoldInBucket(req.month, req.year, TenBuckets[i]))

\* a < b in the order of BSON values: numbers by value, before any string
KeyBefore(a, b) ==
    IF a[1] = "number" /\ b[1] = "number" THEN a[2] < b[2]
    ELSE a[1] = "number" /\ b[1] = "string"

\* C3 amended: get_bar_chart returns its pairs in ascending order of bucket,
\* one for each of the ten buckets that holds a sold document of the month
\* and none for a bucket that holds none (no pair has count 0); sold
\* documents of negative price make one more pair, "Other", the last one
C3_OnePairPerOccupiedBucket ==
    (Handled("get_bar_chart") /\ resp.ok) =>
        /\ \A i, j \in 1..Len(resp.body) :
               i < j => KeyBefore(resp.body[i]._id, resp.body[j]._id)
        /\ \A i \in 1..Len(resp.body) : resp.body[i].count > 0
        /\ \A k \in 1..10 :
               (\E i \in 1..Len(resp.body) : resp.body[i]._id = NumberKey(TenBuckets[k]))
                   <=> SoldInBucket(req.month, req.year, TenBuckets[k]) # {}
        /\ (\E i \in 1..Len(resp.body) : resp.body[i]._id = DefaultKey)
               <=> (\E d \in SoldInMonth(req.month, req.year) : collection[d].price < 0)
        /\ \A i \in 1..Len(resp.body) :
               \/ resp.body[i]._id = DefaultKey
               \/ \E k \in 1..10 : resp.body[i]._id = NumberKey(TenBuckets[k])

\* the example of the specification: one sold document of price 50 and one
\* unsold of price 150 in the month give the single pair [0,100) = 1
C3_Witness ==
    /\ Handled("get_bar_chart")
    /\ req.month = 1 /\ req.year = 2023
    /\ Len(collection) = 2
    /\ \E i, j \in 1..2 :
          /\ collection[i].price = 50 /\ collection[i].sold
          /\ collection[j].price = 150 /\ ~collection[j].sold
    /\ resp = [ok |-> TRUE, body |-> <<[_id |-> NumberKey(0), count |-> 1]>>]

----------------------------------------------------------------------------
(* C4 *)

\* C4: every sold document of the requested month is counted in exactly one
\* bucket, for a price p >= 0 the one from LowerBound(p); unsold documents
\* and documents outside the month are counted in none
C4_CountedInOwnBucket ==
    (Handled("get_bar_chart") /\ resp.ok) =>
        /\ \A k \in 1..10 :
               CountFor(resp.body, NumberKey(TenBuckets[k])) =
                   Cardinality({i \in SoldInMonth(req.month, req.year) :
                       /\ collection[i].price >= 0
                       /\ LowerBound(collection[i].price) = TenBuckets[k]})
        /\ CountSum(resp.body) = Cardinality(SoldInMonth(req.month, req.year))
        /\ \A i, j \in 1..Len(resp.body) :
               resp.body[i]._id = resp.body[j]._id => i = j

\* a sold document of price 100 was counted in [100,200), beside documents
\* that are unsold or outside the month
C4_Witness ==
    /\ Handled("get_bar_chart")
    /\ resp.ok
    /\ \E i \in SoldInMonth(req.month, req.year) : collection[i].price = 100
    /\ CountFor(resp.body, NumberKey(100)) = 1
    /\ CountFor(resp.body, NumberKey(0)) = 0
    /\ \E i \in 1..Len(collection) : i \notin SoldInMonth(req.month, req.year)

----------------------------------------------------------------------------
(* C5 *)

\* C5: get_pie_chart returns exactly one entry per category that occurs
\* among the documents of the month, sold or not, and its counts add up to
\* the number of those documents: total_items_sold + total_items_not_sold of
\* get_statistics for the same month
C5_PieCountsSumToAllItems ==
    /\ (Handled("get_pie_chart") /\ resp.ok) =>
           LET statistics == get_statistics(req.month, req.year, collection, NoFault, 0)
           IN  /\ \A i, j \in 1..Len(resp.body) :
                      resp.body[i]._id = resp.body[j]._id => i = j
               /\ {resp.body[i]._id : i \in 1..Len(resp.body)} =
                      {collection[d].category : d \in InMonth(req.month, req.year)}
               /\ CountSum(resp.body) = Cardinality(InMonth(req.month, req.year))
               /\ statistics.ok
               /\ CountSum(resp.body) = statistics.body.total_items_sold
                                            + statistics.body.total_items_not_sold
    /\ (Handled("get_combined_data") /\ resp.ok) =>
           CountSum(resp.body.pie_chart) =
               resp.body.statistics.total_items_sold
                   + resp.body.statistics.total_items_not_sold

\* a pie chart was returned for a month with a sold and an unsold document
\* and two documents of one category
C5_Witness ==
    /\ Handled("get_pie_chart")
    /\ resp.ok
    /\ SoldInMonth(req.month, req.year) # {}
    /\ NotSoldInMonth(req.month, req.year) # {}
    /\ \E i \in 1..Len(resp.body) : resp.body[i].count = 2
    /\ Len(resp.body) = 2

----------------------------------------------------------------------------
(* C6 *)

RECURSIVE ConcatPages(_, _, _)
\* the results of pages 1..k of one search and page size, one after another
ConcatPages(search, page_size, k) ==
    IF k = 0 THEN <<>>
    ELSE ConcatPages(search, page_size, k - 1)
             \o list_transactions(search, k, page_size, collection, NoFault, 0).body

\* C6: with page >= 1, page_size > 0 and one search, list_transactions
\* returns at most page_size documents, and pages 1..k one after another are
\* the documents, in the same order, of page 1 with page size page_size * k,
\* the response being the last of them; no document comes twice
C6_PagesConcatenate ==
    (Handled("list_transactions") /\ resp.ok) =>
        LET whole == list_transactions(req.search, 1, req.page_size * req.page,
                                       collection, NoFault, 0)
            pages == ConcatPages(req.search, req.page_size, req.page)
        IN  /\ Len(resp.body) <= req.page_size
            /\ whole.ok
            /\ pages = whole.body
            /\ resp.body = SubSeq(pages, Len(pages) - Len(resp.body) + 1, Len(pages))
            /\ Len(pages) = Len(ConcatPages(req.search, req.page_size, req.page - 1))
                                + Len(resp.body)
            /\ \A i, j \in 1..Len(pages) : pages[i]._id = pages[j]._id => i = j

\* a second page of a numeric search was returned, with a document on it
C6_Witness ==
    /\ Handled("list_transactions")
    /\ req.search = <<"5", "0">>
    /\ req.page = 2
    /\ resp.ok
    /\ Len(resp.body) >= 1
    /\ Len(collection) > Len(Find(collection, [empty |-> FALSE, regex |-> req.search,
                                               price |-> 50]))

----------------------------------------------------------------------------
(* C7 *)

\* C7: a search string that is no number does not fail the request: the
\* price clause is not applied and the page of the documents whose title or
\* description holds the string is returned
C7_TextSearchSucceeds ==
    (Handled("list_transactions") /\ req.search # None /\ req.search # <<>>
        /\ float(req.search).raised) =>
        /\ resp.ok
        /\ LET found == SelectSeq(collection, LAMBDA d :
                            \/ RegexMatchI(d.title, req.search)
                            \/ RegexMatchI(d.description, req.search))
               first == (req.page - 1) * req.page_size + 1
               page == SubSeq(found, first,
                              IF first + req.page_size - 1 < Len(found)
                              THEN first + req.page_size - 1 ELSE Len(found))
           IN  /\ Len(resp.body) = Len(page)
               /\ \A i \in 1..Len(page) : resp.body[i].id = page[i].id

----------------------------------------------------------------------------
(* C8 *)

\* C8: get_statistics with a month outside 1..12 fails with a client error
\* (a 4xx status), never with statistics and never with a server error
C8_InvalidMonthIsClientError ==
    (Handled("get_statistics") /\ req.month \notin 1..12) =>
        /\ ~resp.ok
        /\ resp.status \in 400..499

----------------------------------------------------------------------------
(* C9 *)

\* C9: get_combined_data fails with an error and returns no response object
\* when one of its four sub-calls fails, and returns exactly their four
\* results under transactions, statistics, bar_chart and pie_chart when all
\* succeed
C9_CombinedAllOrNothing ==
    (req # Idle /\ req.op = "get_combined_data") =>
        LET transactions == list_transactions(None, 1, 10, collection, req.fault, 0)
            statistics == get_statistics(req.month, req.year, collection, req.fault, 1)
            bar_chart == get_bar_chart(req.month, req.year, collection, req.fault, 4)
            pie_charts == get_pie_chart(req.month, req.year, collection, req.fault, 5)
        IN  IF \/ ~transactions.ok
               \/ ~statistics.ok
               \/ ~bar_chart.ok
               \/ \E p \in pie_charts : ~p.ok
            THEN /\ ~resp.ok
                 /\ resp.status >= 400
                 /\ DOMAIN resp = {"ok", "status", "detail"}
            ELSE /\ resp.ok
                 /\ DOMAIN resp.body =
                        {"transactions", "statistics", "bar_chart", "pie_chart"}
                 /\ resp.body.transactions = transactions.body
                 /\ resp.body.statistics = statistics.body
                 /\ resp.body.bar_chart = bar_chart.body
                 /\ \E p \in pie_charts : resp.body.pie_chart = p.body

\* the last sub-call, get_pie_chart, failed after the other three succeeded
\* on a collection with documents in the month, and the combined call failed
C9_Witness ==
    /\ req # Idle
    /\ req.op = "get_combined_data"
    /\ req.fault.at = 6
    /\ InMonth(req.month, req.year) # {}
    /\ get_statistics(req.month, req.year, collection, NoFault, 0).ok
    /\ ~resp.ok

\* all four sub-calls succeeded and the combined call returned their results
C9_WitnessAll ==
    /\ Handled("get_combined_data")
    /\ resp.ok
    /\ Len(resp.body.transactions) = MaxDocs
    /\ Len(resp.body.bar_chart) >= 1
    /\ Len(resp.body.pie_chart) >= 2

----------------------------------------------------------------------------
(* C10 *)

\* the outcomes a request can have under a storage fault
Outcomes(r, fault) ==
    CASE r.op = "list_transactions" ->
             {list_transactions(r.search, r.page, r.page_size, collection, fault, 0)}
      [] r.op = "get_statistics" ->
             {get_statistics(r.month, r.year, collection, fault, 0)}
      [] r.op = "get_bar_chart" ->
             {get_bar_chart(r.month, r.year, collection, fault, 0)}
      [] r.op = "get_pie_chart" ->
             get_pie_chart(r.month, r.year, collection, fault, 0)
      [] r.op = "get_combined_data" ->
             get_combined_data(r.month, r.year, collection, fault)

\* C10: the detail of the server error of a failed storage access does not
\* depend on the text of the internal exception: the same request failing
\* with another exception text gets the same detail
C10_GenericFailureDetail ==
    (req # Idle /\ req.fault.at # 0 /\ ~resp.ok) =>
        /\ resp.status = 500
        /\ \A text \in FaultTexts :
               \A o \in Outcomes(req, [req.fault EXCEPT !.text = text]) :
                   ~o.ok /\ o.detail = resp.detail

====
